---- MODULE Spec2Model ----
(***************************************************************************)
(* A model of review_code_gemini.py: the unified-diff parser (parse_diff), *)
(* the AI response validator (get_ai_response), the comment mapper         *)
(* (create_comment) and the orchestrator (main / analyze_code).            *)
(*                                                                         *)
(* Python strings are TLA+ strings (TLC evaluates Len, SubSeq and \o on    *)
(* them).  A text is represented by the sequence of lines that             *)
(* str.splitlines() yields for it; the empty text is the empty sequence.   *)
(* Python object references (the dicts that parse_diff aliases) are        *)
(* indices into a heap.                                                    *)
(***************************************************************************)
EXTENDS Integers, Sequences, FiniteSets, TLC

VARIABLES
    pc,             \* control location of the running function
    diff_str,       \* the diff text, as its lines
    parser,         \* parse_diff's locals: heap, files, current_file, current_hunk
    parsed_diff,    \* parse_diff's return value
    ai_responses,   \* create_comment's argument: the list of AI responses
    source_start,   \* hunk.source_start, as create_comment reads it
    idx,            \* how many elements the running for loop has consumed
    comments,       \* the comments list being built
    raised,         \* the exception that left the running function, "" if none
    response,       \* what gemini_client.generate_text did for the prompt
    valid_reviews,  \* get_ai_response's valid_reviews list
    ai_response,    \* get_ai_response's return value
    action,         \* event_data["action"]
    exclude,        \* os.environ["INPUT_EXCLUDE"]
    filtered_diff,  \* main's filtered_diff
    fi,             \* analyze_code: the index of file_data in parsed_diff
    hi,             \* analyze_code: the index of hunk_data in the file's hunks
    ai_log,         \* history: the AI requests issued, each with what it produced
    calls,          \* history: how often each GitHub operation was attempted
    submitted       \* the comments create_review_comment was called with

parseVars == <<diff_str, parser, parsed_diff>>
commentVars == <<ai_responses, source_start>>
loopVars == <<idx, comments, raised>>
replyVars == <<response, valid_reviews, ai_response>>
mainVars == <<action, exclude, filtered_diff, fi, hi, ai_log, calls, submitted>>
vars == <<pc, parseVars, commentVars, loopVars, replyVars, mainVars>>

\* ---------------------------------------------------------------- bounds
MaxLines == 5
MaxResponses == 3
MaxReviews == 3
MaxReplyReviews == 2

\* ------------------------------------------------------- Python strings
\* str.startswith(p)
StartsWith(s, p) == Len(s) >= Len(p) /\ SubSeq(s, 1, Len(p)) = p

\* s[k:]
From(s, k) == SubSeq(s, k + 1, Len(s))

\* ------------------------------------------------------------ parse_diff
None == 0
NoHunk == <<0, 0>>

\* Lines a diff is made of in the parser's specification.
DiffLines ==
    { "diff --git", "--- a/o", "+++ b/n", "@@ -1 @@", "@@ -9 @@", "index 1",
      "--- /dev/null", "+++ /dev/null", "+x" }

\* The locals of parse_diff before the loop (lines 209-211).
ParserInit ==
    [heap |-> <<>>, files |-> <<>>, current_file |-> None, current_hunk |-> NoHunk]

\* OnBoundary with the open file closed only when it has hunks.
OnBoundaryDropsEmpty(st, pos) ==
    [st EXCEPT
        !.files = IF st.current_file # None /\ st.heap[st.current_file].hunks # <<>>
                  THEN Append(@, st.current_file) ELSE @,
        !.heap = Append(@, [path |-> "", hunks |-> <<>>, at |-> pos]),
        !.current_file = Len(st.heap) + 1]

\* line.startswith('diff --git'): close the open file, open a new one.
\* current_hunk is left as it is.
OnBoundary(st, pos) ==
    [st EXCEPT
        !.files = IF st.current_file # None THEN Append(@, st.current_file) ELSE @,
        !.heap = Append(@, [path |-> "", hunks |-> <<>>, at |-> pos]),
        !.current_file = Len(st.heap) + 1]

\* line.startswith('--- a/') and line.startswith('+++ b/'): both set the path.
OnPath(st, line) ==
    IF st.current_file # None
    THEN [st EXCEPT !.heap[st.current_file].path = From(line, 6)]
    ELSE st

\* line.startswith('@@'): open a hunk in the current file.
OnHunk(st, line, pos) ==
    IF st.current_file # None
    THEN [st EXCEPT
            !.heap[st.current_file].hunks =
                Append(@, [header |-> line, lines |-> <<>>, at |-> pos, src |-> <<>>]),
            !.current_hunk =
                <<st.current_file, Len(st.heap[st.current_file].hunks) + 1>>]
    ELSE st

\* Any other line: appended to the hunk current_hunk refers to, wherever that
\* hunk lives.  at and src are history fields: the input position of a hunk's
\* header and of each buffered line.
OnOther(st, line, pos) ==
    IF st.current_hunk # NoHunk
    THEN [st EXCEPT
            !.heap[st.current_hunk[1]].hunks[st.current_hunk[2]].lines = Append(@, line),
            !.heap[st.current_hunk[1]].hunks[st.current_hunk[2]].src = Append(@, pos)]
    ELSE st

\* One iteration of the loop of parse_diff (lines 213-233).
ParseStep(st, line, pos) ==
    IF StartsWith(line, "diff --git") THEN OnBoundary(st, pos)
    ELSE IF StartsWith(line, "--- a/") THEN OnPath(st, line)
    ELSE IF StartsWith(line, "+++ b/") THEN OnPath(st, line)
    ELSE IF StartsWith(line, "@@") THEN OnHunk(st, line, pos)
    ELSE OnOther(st, line, pos)

\* After the loop (lines 235-238): append the open file, return the files.
ParseReturn(st) ==
    LET fs == IF st.current_file # None THEN Append(st.files, st.current_file)
              ELSE st.files
    IN  [i \in 1..Len(fs) |-> st.heap[fs[i]]]

\* The loop from line i on.
RECURSIVE ParseFrom(_, _, _)
ParseFrom(st, lines, i) ==
    IF i > Len(lines) THEN st
    ELSE ParseFrom(ParseStep(st, lines[i], i), lines, i + 1)

\* parse_diff(diff_str)
parse_diff(lines) == ParseReturn(ParseFrom(ParserInit, lines, 1))

\* ---------------------------------------------------------- JSON values
\* A scalar is [t, n, s]: its Python type, its number and its text.  A float
\* is kept in tenths (n), with s one of "fin", "inf", "nan": json.loads yields
\* inf for 1e999 or Infinity and nan for NaN.
IntV(n) == [t |-> "int", n |-> n, s |-> ""]
StrV(s) == [t |-> "str", n |-> 0, s |-> s]
FloatV(tenths) == [t |-> "float", n |-> tenths, s |-> "fin"]
InfV == [t |-> "float", n |-> 0, s |-> "inf"]
NanV == [t |-> "float", n |-> 0, s |-> "nan"]
NullV == [t |-> "null", n |-> 0, s |-> ""]

\* An element of a list of reviews is [t, n, s, d]: a scalar (d empty), a dict
\* (d its set of <<key, scalar>> pairs) or a list (d its <<index, scalar>> pairs).
Item(v) == [t |-> v.t, n |-> v.n, s |-> v.s, d |-> {}]
DictV(d) == [t |-> "dict", n |-> 0, s |-> "", d |-> d]
ListV(d) == [t |-> "list", n |-> 0, s |-> "", d |-> d]

\* The outcome of an expression: the exception it raises ("" if none), its value.
Ok(v) == [exc |-> "", val |-> v]
Raise(e, default) == [exc |-> e, val |-> default]

\* ---------------------------------------------------------------- int()
IsDigit(c) == c \in {"0", "1", "2", "3", "4", "5", "6", "7", "8", "9"}

DigitVal(c) ==
    CASE c = "0" -> 0 [] c = "1" -> 1 [] c = "2" -> 2 [] c = "3" -> 3 [] c = "4" -> 4
      [] c = "5" -> 5 [] c = "6" -> 6 [] c = "7" -> 7 [] c = "8" -> 8 [] c = "9" -> 9

IsSpace(c) == c \in {" ", "\t", "\n"}

RECURSIVE LStrip(_)
LStrip(s) == IF Len(s) > 0 /\ IsSpace(SubSeq(s, 1, 1)) THEN LStrip(From(s, 1)) ELSE s

RECURSIVE RStrip(_)
RStrip(s) ==
    IF Len(s) > 0 /\ IsSpace(SubSeq(s, Len(s), Len(s)))
    THEN RStrip(SubSeq(s, 1, Len(s) - 1))
    ELSE s

\* str.strip()
Strip(s) == RStrip(LStrip(s))

\* The value of a run of decimal digits, single underscores allowed between
\* digits; -1 when s is no such run.
RECURSIVE Digits(_, _, _, _)
Digits(s, i, acc, afterDigit) ==
    IF i > Len(s) THEN (IF afterDigit THEN acc ELSE -1)
    ELSE LET c == SubSeq(s, i, i) IN
         IF IsDigit(c) THEN Digits(s, i + 1, acc * 10 + DigitVal(c), TRUE)
         ELSE IF c = "_" /\ afterDigit THEN Digits(s, i + 1, acc, FALSE)
         ELSE -1

\* int(s) of a str: surrounding whitespace and one sign are accepted.
IntOfStr(s) ==
    LET t == Strip(s)
        neg == StartsWith(t, "-")
        body == IF StartsWith(t, "-") \/ StartsWith(t, "+") THEN From(t, 1) ELSE t
        v == Digits(body, 1, 0, FALSE)
    IN  IF v < 0 THEN Raise("ValueError", 0) ELSE Ok(IF neg THEN 0 - v ELSE v)

\* int(v): truncation toward zero of a float, OverflowError for an infinity,
\* ValueError for a nan or a non-numeric str, TypeError for None.
IntOf(v) ==
    CASE v.t = "int" -> Ok(v.n)
      [] v.t = "bool" -> Ok(v.n)
      [] v.t = "float" ->
            IF v.s = "inf" THEN Raise("OverflowError", 0)
            ELSE IF v.s = "nan" THEN Raise("ValueError", 0)
            ELSE Ok(IF v.n >= 0 THEN v.n \div 10 ELSE 0 - ((0 - v.n) \div 10))
      [] v.t = "str" -> IntOfStr(v.s)
      [] OTHER -> Raise("TypeError", 0)

\* ------------------------------------------------ subscripting and `in`
HasKey(x, key) == \E e \in x.d : e[1] = key

\* x[key] for a str key: KeyError for a dict without it, TypeError for
\* anything that is not a dict.
Subscript(x, key) ==
    IF x.t = "dict"
    THEN IF HasKey(x, key) THEN Ok((CHOOSE e \in x.d : e[1] = key)[2])
         ELSE Raise("KeyError", NullV)
    ELSE Raise("TypeError", NullV)

IsSubstring(k, s) == \E i \in 1..(Len(s) - Len(k) + 1) : SubSeq(s, i, i + Len(k) - 1) = k

\* key in x: a key of a dict, a substring of a str, an element of a list;
\* TypeError for a number, a bool or None.
Contains(key, x) ==
    CASE x.t = "dict" -> Ok(HasKey(x, key))
      [] x.t = "str" -> Ok(IsSubstring(key, x.s))
      [] x.t = "list" -> Ok(\E e \in x.d : e[2] = StrV(key))
      [] OTHER -> Raise("TypeError", FALSE)

\* ------------------------------------------------------- get_ai_response
\* What the backend does for a prompt: generate_text raises ("raise"), or
\* returns a response whose result is None ("none") or a text ("text").  A
\* text is represented by what json.loads makes of it: json_ok is FALSE when
\* it raises JSONDecodeError, data is the decoded value otherwise.  data is
\* [t, s, has_reviews, reviews_is_list, reviews]: a dict (with or without a
\* "reviews" key, whose value is a list or not), a str (s) or a number.
Data(t, s, has, isList, reviews) ==
    [t |-> t, s |-> s, has_reviews |-> has, reviews_is_list |-> isList, reviews |-> reviews]

NoData == Data("null", "", FALSE, FALSE, <<>>)
TextReply(data) == [kind |-> "text", json_ok |-> TRUE, data |-> data]
ReviewsReply(reviews) == TextReply(Data("dict", "", TRUE, TRUE, reviews))
BadJsonReply == [kind |-> "text", json_ok |-> FALSE, data |-> NoData]
RaiseReply == [kind |-> "raise", json_ok |-> FALSE, data |-> NoData]
NoneReply == [kind |-> "none", json_ok |-> FALSE, data |-> NoData]
NoResponse == NoneReply

\* "reviews" in data and isinstance(data["reviews"], list) (line 149)
HasReviewsList(data) ==
    CASE data.t = "dict" -> Ok(data.has_reviews /\ data.reviews_is_list)
      [] data.t = "str" ->
            IF IsSubstring("reviews", data.s) THEN Raise("TypeError", FALSE) ELSE Ok(FALSE)
      [] OTHER -> Raise("TypeError", FALSE)

\* Lines 138-149: the call, response.result.strip(), json.loads and the test
\* of line 149.  ok: the loop over data["reviews"] is entered.  Every
\* exception here is caught (lines 163, 167) and makes the function return [].
Decode(reply) ==
    IF reply.kind # "text" \/ ~reply.json_ok THEN Raise("Exception", <<>>)
    ELSE LET h == HasReviewsList(reply.data) IN
         IF h.exc # "" THEN Raise(h.exc, <<>>)
         ELSE IF h.val THEN Ok(reply.data.reviews)
         ELSE Raise("NoReviews", <<>>)

\* One iteration of the loop of lines 153-157: st is [valid_reviews, exc].
ValidateStep(st, review) ==
    LET c1 == Contains("lineNumber", review)
        c2 == Contains("reviewComment", review)
    IN  IF c1.exc # "" THEN [st EXCEPT !.exc = c1.exc]
        ELSE IF ~c1.val THEN st
        ELSE IF c2.exc # "" THEN [st EXCEPT !.exc = c2.exc]
        ELSE IF c2.val THEN [st EXCEPT !.valid_reviews = Append(@, review)]
        ELSE st

RECURSIVE ValidateFrom(_, _, _)
ValidateFrom(st, reviews, i) ==
    IF i > Len(reviews) \/ st.exc # "" THEN st
    ELSE ValidateFrom(ValidateStep(st, reviews[i]), reviews, i + 1)

\* get_ai_response(prompt), given what the backend does: the except clauses of
\* lines 163-169 turn every exception into [].
get_ai_response(reply) ==
    LET d == Decode(reply)
        v == ValidateFrom([valid_reviews |-> <<>>, exc |-> ""], d.val, 1)
    IN  IF d.exc # "" THEN <<>>
        ELSE IF v.exc # "" THEN <<>>
        ELSE v.valid_reviews

\* -------------------------------------------------------- create_comment
NoComment == [body |-> NullV, path |-> "", line |-> 0]

\* The body of the try of create_comment (lines 177-183).
TryComment(path, start, resp) ==
    LET ln == Subscript(resp, "lineNumber")
        iv == IntOf(ln.val)
        rc == Subscript(resp, "reviewComment")
    IN  IF ln.exc # "" THEN Raise(ln.exc, NoComment)
        ELSE IF iv.exc # "" THEN Raise(iv.exc, NoComment)
        ELSE IF rc.exc # "" THEN Raise(rc.exc, NoComment)
        ELSE Ok([body |-> rc.val, path |-> path, line |-> start + iv.val - 1])

\* except (KeyError, TypeError, ValueError) (line 184)
Caught == {"KeyError", "TypeError", "ValueError"}

\* One iteration of the loop of create_comment (lines 175-185): st is
\* [comments, exc]; an exception the except clause does not name leaves the
\* function.
CommentStep(st, path, start, resp) ==
    LET r == TryComment(path, start, resp) IN
    IF r.exc = "" THEN [st EXCEPT !.comments = Append(@, r.val)]
    ELSE IF r.exc \in Caught THEN st
    ELSE [st EXCEPT !.exc = r.exc]

RECURSIVE CommentFrom(_, _, _, _, _)
CommentFrom(st, path, start, resps, i) ==
    IF i > Len(resps) \/ st.exc # "" THEN st
    ELSE CommentFrom(CommentStep(st, path, start, resps[i]), path, start, resps, i + 1)

\* create_comment(file, hunk, ai_responses): [comments, exc]
create_comment(path, start, resps) ==
    CommentFrom([comments |-> <<>>, exc |-> ""], path, start, resps, 1)

\* ------------------------------------------------------ fnmatch, filter
\* fnmatch.fnmatch(name, pat) on POSIX, for patterns of literals, * and ?:
\* the whole name must match, and * also matches "/".
\* MatchAt: name[i:] matches pat[j:].
RECURSIVE MatchAt(_, _, _, _)
MatchAt(name, pat, i, j) ==
    IF j = Len(pat) THEN i = Len(name)
    ELSE LET c == SubSeq(pat, j + 1, j + 1) IN
         IF c = "*"
         THEN MatchAt(name, pat, i, j + 1) \/ (i < Len(name) /\ MatchAt(name, pat, i + 1, j))
         ELSE IF c = "?"
         THEN i < Len(name) /\ MatchAt(name, pat, i + 1, j + 1)
         ELSE /\ i < Len(name)
              /\ SubSeq(name, i + 1, i + 1) = c
              /\ MatchAt(name, pat, i + 1, j + 1)

Fnmatch(name, pat) == MatchAt(name, pat, 0, 0)

\* s.split(",")
RECURSIVE SplitComma(_)
SplitComma(s) ==
    IF \E i \in 1..Len(s) : SubSeq(s, i, i) = ","
    THEN LET i == CHOOSE k \in 1..Len(s) :
                    SubSeq(s, k, k) = "," /\ \A m \in 1..(k - 1) : SubSeq(s, m, m) # ","
         IN  <<SubSeq(s, 1, i - 1)>> \o SplitComma(From(s, i))
    ELSE <<s>>

\* Lines 255-256: the patterns of INPUT_EXCLUDE, each stripped.
ExcludePatterns(env) ==
    LET parts == SplitComma(env) IN [i \in 1..Len(parts) |-> Strip(parts[i])]

\* any(fnmatch.fnmatch(path, pattern) for pattern in exclude_patterns)
MatchesAny(path, patterns) == \E i \in 1..Len(patterns) : Fnmatch(path, patterns[i])

\* FilterDiff with all() in the place of any().
FilterDiffAll(parsed, patterns) ==
    SelectSeq(parsed, LAMBDA file :
        ~(\A i \in 1..Len(patterns) : Fnmatch(file.path, patterns[i])))

\* Lines 258-262 (and 282-286): the files that match no pattern.
FilterDiff(parsed, patterns) ==
    SelectSeq(parsed, LAMBDA file : ~MatchesAny(file.path, patterns))

\* ---------------------------------------------------------- analyze_code
\* hunk.source_start = 1 (line 86)
HunkSourceStart == 1

\* `if not file_path or file_path == "/dev/null"` (line 67)
SkipsFile(file) == file.path = "" \/ file.path = "/dev/null"

\* Lines 94-100 for one hunk, given what the backend does: the comments the
\* hunk adds, or the exception that leaves analyze_code.
AnalyzeHunk(path, reply) ==
    LET resp == get_ai_response(reply) IN
    IF resp = <<>> THEN [comments |-> <<>>, exc |-> ""]
    ELSE create_comment(path, HunkSourceStart, resp)

\* Extend with the list replaced instead of extended.
ExtendReplaces(list, new) == new

\* comments.extend(new_comments) (line 100)
Extend(list, new) == list \o new

\* `if comments:` (lines 266, 291)
SubmitsReview(list) == list # <<>>

\* The branches of main that run the pipeline (lines 246, 270).
Supported(a) == a = "opened" \/ a = "synchronize"

NoCalls == [metadata |-> 0, diff |-> 0, review |-> 0]

\* -------------------------------------- specification of create_comment
Review(ln, body) == DictV({<<"lineNumber", ln>>, <<"reviewComment", StrV(body)>>})

\* The AI responses create_comment is given.
ResponsePool ==
    { Review(IntV(5), "a"),
      Review(StrV("3"), "b"),
      Review(FloatV(27), "c"),
      DictV({<<"reviewComment", StrV("d")>>}),
      DictV({<<"lineNumber", IntV(2)>>}),
      Review(StrV("x1"), "e"),
      Review(NullV, "f"),
      Review(InfV, "g"),
      Review(NanV, "h"),
      Item(StrV("lineNumber reviewComment")) }

StartPool == {1, 3}
FilePath == "foo.py"

RECURSIVE SeqsUpTo(_, _)
SeqsUpTo(S, n) ==
    IF n = 0 THEN {<<>>}
    ELSE LET shorter == SeqsUpTo(S, n - 1)
         IN  shorter \cup {Append(q, x) : q \in {r \in shorter : Len(r) = n - 1}, x \in S}

CommentInit ==
    /\ pc = "create_comment"
    /\ ai_responses \in SeqsUpTo(ResponsePool, MaxResponses)
    /\ source_start \in StartPool
    /\ idx = 0
    /\ comments = <<>>
    /\ raised = ""
    /\ diff_str = <<>> /\ parser = ParserInit /\ parsed_diff = <<>>
    /\ response = NoResponse /\ valid_reviews = <<>> /\ ai_response = <<>>
    /\ action = "" /\ exclude = "" /\ filtered_diff = <<>> /\ fi = 0 /\ hi = 0
    /\ ai_log = <<>> /\ calls = NoCalls /\ submitted = <<>>

\* One iteration of the for loop.
CommentLoop ==
    /\ pc = "create_comment"
    /\ idx < Len(ai_responses)
    /\ LET st == CommentStep([comments |-> comments, exc |-> ""], FilePath,
                             source_start, ai_responses[idx + 1])
       IN  /\ comments' = st.comments
           /\ raised' = st.exc
           /\ pc' = IF st.exc # "" THEN "raised" ELSE pc
    /\ idx' = idx + 1
    /\ UNCHANGED <<parseVars, commentVars, replyVars, mainVars>>

\* return comments
CommentReturn ==
    /\ pc = "create_comment"
    /\ idx = Len(ai_responses)
    /\ pc' = "returned"
    /\ UNCHANGED <<parseVars, commentVars, loopVars, replyVars, mainVars>>

CommentNext == CommentLoop \/ CommentReturn

SpecComment == CommentInit /\ [][CommentNext]_vars

\* ---------------------------------------------- claims on create_comment
\* A response with both fields whose lineNumber int() accepts.
Mappable(r) ==
    /\ r.t = "dict"
    /\ HasKey(r, "lineNumber")
    /\ HasKey(r, "reviewComment")
    /\ IntOf(Subscript(r, "lineNumber").val).exc = ""

MappedComment(r, start) ==
    [body |-> Subscript(r, "reviewComment").val,
     path |-> FilePath,
     line |-> start + IntOf(Subscript(r, "lineNumber").val).val - 1]

\* C1: with hunk start 1, create_comment returns one comment per response that
\* has both fields and an integer-convertible lineNumber, in order, with
\* line = start + int(lineNumber) - 1; every other response is dropped on its
\* own and the batch is never aborted.
C1_OneCommentPerMappableResponse ==
    (source_start = 1 /\ pc \in {"returned", "raised"}) =>
        LET kept == SelectSeq(ai_responses, Mappable) IN
        /\ pc = "returned"
        /\ comments = [i \in 1..Len(kept) |-> MappedComment(kept[i], source_start)]

\* ------------------------------------- specification of get_ai_response
\* The elements a "reviews" list is made of.
ReviewPool ==
    { Review(IntV(2), "x"),
      Review(StrV("3"), "y"),
      DictV({<<"reviewComment", StrV("z")>>}),
      DictV({<<"lineNumber", IntV(1)>>}),
      Item(IntV(7)),
      Item(NullV),
      Item(StrV("note")),
      Item(StrV("lineNumber reviewComment")),
      ListV({<<1, StrV("lineNumber")>>, <<2, StrV("reviewComment")>>}) }

ValidatorReplies ==
    {ReviewsReply(r) : r \in SeqsUpTo(ReviewPool, MaxReviews)}
        \cup { RaiseReply, NoneReply, BadJsonReply,
               TextReply(Data("dict", "", FALSE, FALSE, <<>>)),
               TextReply(Data("dict", "", TRUE, FALSE, <<>>)),
               TextReply(Data("str", "no reviews", FALSE, FALSE, <<>>)),
               TextReply(Data("int", "", FALSE, FALSE, <<>>)) }

ValidateInit ==
    /\ pc = "get_ai_response"
    /\ response \in ValidatorReplies
    /\ valid_reviews = <<>>
    /\ ai_response = <<>>
    /\ idx = 0 /\ comments = <<>> /\ raised = ""
    /\ ai_responses = <<>> /\ source_start = 1
    /\ diff_str = <<>> /\ parser = ParserInit /\ parsed_diff = <<>>
    /\ action = "" /\ exclude = "" /\ filtered_diff = <<>> /\ fi = 0 /\ hi = 0
    /\ ai_log = <<>> /\ calls = NoCalls /\ submitted = <<>>

\* Lines 138-150 and 159-169: the reply is decoded; the loop is entered or []
\* is returned.
DecodeReply ==
    /\ pc = "get_ai_response"
    /\ pc' = IF Decode(response).exc = "" THEN "validate" ELSE "returned"
    /\ UNCHANGED <<parseVars, commentVars, loopVars, replyVars, mainVars>>

\* One iteration of the validation loop; an exception in it is caught by
\* line 167 and [] is returned.
ValidateLoop ==
    /\ pc = "validate"
    /\ idx < Len(response.data.reviews)
    /\ LET st == ValidateStep([valid_reviews |-> valid_reviews, exc |-> ""],
                              response.data.reviews[idx + 1])
       IN  /\ valid_reviews' = st.valid_reviews
           /\ pc' = IF st.exc # "" THEN "returned" ELSE pc
    /\ idx' = idx + 1
    /\ UNCHANGED <<parseVars, commentVars, comments, raised, response, ai_response, mainVars>>

\* return valid_reviews (line 158)
ValidateReturn ==
    /\ pc = "validate"
    /\ idx = Len(response.data.reviews)
    /\ pc' = "returned"
    /\ ai_response' = valid_reviews
    /\ UNCHANGED <<parseVars, commentVars, loopVars, response, valid_reviews, mainVars>>

ValidateNext == DecodeReply \/ ValidateLoop \/ ValidateReturn

SpecValidate == ValidateInit /\ [][ValidateNext]_vars

\* --------------------------------------------- claims on get_ai_response
\* An element that carries both fields.
CarriesBoth(r) == r.t = "dict" /\ HasKey(r, "lineNumber") /\ HasKey(r, "reviewComment")

IsReviewsReply(reply) ==
    /\ reply.kind = "text" /\ reply.json_ok
    /\ reply.data.t = "dict" /\ reply.data.has_reviews /\ reply.data.reviews_is_list

\* C4: for a reply that is valid JSON with a `reviews` list, get_ai_response
\* returns exactly the elements that carry both lineNumber and reviewComment,
\* in order; an element of any JSON type that does not is dropped on its own.
C4_ValidElementsReturned ==
    (pc = "returned" /\ IsReviewsReply(response)) =>
        ai_response = SelectSeq(response.data.reviews, CarriesBoth)

\* ------------------------------------------ specification of parse_diff
ParseInit ==
    /\ pc = "parsing"
    /\ diff_str = <<>>
    /\ parser = ParserInit
    /\ parsed_diff = <<>>
    /\ ai_responses = <<>> /\ source_start = 1
    /\ idx = 0 /\ comments = <<>> /\ raised = ""
    /\ response = NoResponse /\ valid_reviews = <<>> /\ ai_response = <<>>
    /\ action = "" /\ exclude = "" /\ filtered_diff = <<>> /\ fi = 0 /\ hi = 0
    /\ ai_log = <<>> /\ calls = NoCalls /\ submitted = <<>>

\* The loop reads one more line of the input.
ParseLine ==
    /\ pc = "parsing"
    /\ Len(diff_str) < MaxLines
    /\ \E line \in DiffLines :
        /\ diff_str' = Append(diff_str, line)
        /\ parser' = ParseStep(parser, line, Len(diff_str) + 1)
    /\ UNCHANGED <<pc, parsed_diff, commentVars, loopVars, replyVars, mainVars>>

\* End of input.
ParseEnd ==
    /\ pc = "parsing"
    /\ pc' = "parsed"
    /\ parsed_diff' = ParseReturn(parser)
    /\ UNCHANGED <<diff_str, parser, commentVars, loopVars, replyVars, mainVars>>

ParseNext == ParseLine \/ ParseEnd

SpecParse == ParseInit /\ [][ParseNext]_vars

\* ------------------------------------------------ reading the diff text
IsBoundary(l) == StartsWith(l, "diff --git")
IsHunkMark(l) == StartsWith(l, "@@")
IsOldMark(l) == StartsWith(l, "--- a/")
IsNewMark(l) == StartsWith(l, "+++ b/")

\* The positions of the lines of L that satisfy Test, in order.
Positions(L, Test(_)) == SelectSeq([p \in 1..Len(L) |-> p], LAMBDA p : Test(L[p]))

\* The last position of the file section that the boundary at b opens.
SectionEnd(L, b) ==
    IF \E q \in (b + 1)..Len(L) : IsBoundary(L[q])
    THEN (CHOOSE q \in (b + 1)..Len(L) :
            IsBoundary(L[q]) /\ \A r \in (b + 1)..(q - 1) : ~IsBoundary(L[r])) - 1
    ELSE Len(L)

Section(L, b) == b..SectionEnd(L, b)

\* Position p lies after a file's boundary and before that file's first @@.
PreHunk(L, p) ==
    \E b \in 1..(p - 1) :
        /\ IsBoundary(L[b])
        /\ \A q \in (b + 1)..p : ~IsBoundary(L[q]) /\ ~IsHunkMark(L[q])

\* ------------------------------------------------- claims on parse_diff

\* C2: no line that appears after a file's `diff --git` boundary and before
\* that file's first `@@` marker is in the line buffer of any hunk of any
\* returned file.
C2_PreHunkLinesAbsent ==
    pc = "parsed" =>
        \A k \in 1..Len(parsed_diff) :
            \A j \in 1..Len(parsed_diff[k].hunks) :
                \A i \in 1..Len(parsed_diff[k].hunks[j].src) :
                    ~PreHunk(diff_str, parsed_diff[k].hunks[j].src[i])

\* C5: a diff with N `diff --git` lines yields exactly N files, in the order
\* of their boundary lines, and each file's hunks are exactly the `@@` lines of
\* its section, in order.
C5_FilesAndHunksPerBoundary ==
    pc = "parsed" =>
        LET bs == Positions(diff_str, IsBoundary) IN
        /\ Len(parsed_diff) = Len(bs)
        /\ \A k \in 1..Len(parsed_diff) :
            LET marks == SelectSeq(Positions(diff_str, IsHunkMark),
                                   LAMBDA p : p \in Section(diff_str, bs[k]))
                hunks == parsed_diff[k].hunks
            IN  /\ parsed_diff[k].at = bs[k]
                /\ Len(hunks) = Len(marks)
                /\ \A j \in 1..Len(hunks) :
                    hunks[j].at = marks[j] /\ hunks[j].header = diff_str[marks[j]]

\* C5's case: two files parsed, the first with two hunks, the second with one.
C5_Witness ==
    /\ pc = "parsed"
    /\ Len(parsed_diff) = 2
    /\ Len(parsed_diff[1].hunks) = 2
    /\ Len(parsed_diff[2].hunks) = 1

\* C6: a file whose section holds both a `--- a/` line and a `+++ b/` line, in
\* any order and anywhere in the section, has the remainder of the `+++ b/`
\* line as its path and never the remainder of a `--- a/` line.
C6_PostImagePathWins ==
    pc = "parsed" =>
        \A k \in 1..Len(parsed_diff) :
            LET sec == Section(diff_str, parsed_diff[k].at)
                olds == {From(diff_str[p], 6) : p \in {q \in sec : IsOldMark(diff_str[q])}}
                news == {From(diff_str[p], 6) : p \in {q \in sec : IsNewMark(diff_str[q])}}
            IN  (olds # {} /\ news # {}) =>
                    (parsed_diff[k].path \in news /\ parsed_diff[k].path \notin olds)

\* ------------------------------------------------ specification of main
\* The diffs GitHub returns.
DiffOneFile ==
    << "diff --git a/foo.py b/foo.py", "index 1..2 100644",
       "--- a/foo.py", "+++ b/foo.py",
       "@@ -1,3 +1,3 @@", " a", "-b", "+c" >>

DiffTwoFiles ==
    << "diff --git a/a.py b/a.py", "index 1..2 100644",
       "--- a/a.py", "+++ b/a.py",
       "@@ -1 +1 @@", "+x",
       "@@ -9 +9 @@", "-y",
       "diff --git a/b.md b/b.md", "index 3..4 100644",
       "--- a/b.md", "+++ b/b.md",
       "@@ -1 +1 @@", "+z" >>

DiffDeleted ==
    << "diff --git a/gone.py b/gone.py", "deleted file mode 100644",
       "--- a/gone.py", "+++ /dev/null",
       "@@ -1 +0,0 @@", "-x",
       "diff --git a/new.py b/new.py", "new file mode 100644",
       "--- /dev/null", "+++ b/new.py",
       "@@ -0,0 +1 @@" >>

DiffNoPath ==
    << "diff --git a/m.sh b/m.sh", "old mode 100644", "new mode 100755",
       "@@ -1 +1 @@", "+w",
       "diff --git a/a.py b/a.py",
       "--- a/a.py", "+++ b/a.py",
       "@@ -1 +1 @@", "+x" >>

DiffPool == {<<>>, DiffOneFile, DiffTwoFiles, DiffDeleted, DiffNoPath}

\* The values of INPUT_EXCLUDE; "" is the default of line 255.
ExcludePool == {"", "foo.py", "*.md, n?w.py", "a.py,b.md"}

ActionPool == {"opened", "synchronize", "closed"}

\* What the backend does for a prompt.
ReplyItems ==
    { Review(IntV(1), "avoid mutable default"),
      Review(StrV("2"), "rename"),
      Review(InfV, "overflow") }

ReplyPool ==
    {ReviewsReply(r) : r \in SeqsUpTo(ReplyItems, MaxReplyReviews)}
        \cup { RaiseReply, BadJsonReply, TextReply(Data("dict", "", FALSE, FALSE, <<>>)) }

Init ==
    /\ pc = "main"
    /\ action \in ActionPool
    /\ exclude \in ExcludePool
    /\ diff_str = <<>> /\ parser = ParserInit /\ parsed_diff = <<>>
    /\ filtered_diff = <<>> /\ fi = 0 /\ hi = 0
    /\ comments = <<>> /\ raised = "" /\ idx = 0
    /\ response = NoResponse /\ valid_reviews = <<>> /\ ai_response = <<>>
    /\ ai_responses = <<>> /\ source_start = HunkSourceStart
    /\ ai_log = <<>> /\ calls = NoCalls /\ submitted = <<>>

idle == <<parser, commentVars, idx, valid_reviews>>

\* pr_details = get_pr_details() (line 244): the event file is read and the
\* pull request is looked up, before the action is looked at.  An exception
\* ends main at the handler of line 307.
GetPrDetails ==
    /\ pc = "main"
    /\ calls' = [calls EXCEPT !.metadata = @ + 1]
    /\ \E ok \in BOOLEAN :
        /\ pc' = IF ok THEN "check_action" ELSE "done"
        /\ raised' = IF ok THEN "" ELSE "GithubException"
    /\ UNCHANGED <<idle, diff_str, parsed_diff, comments, response, ai_response,
                   action, exclude, filtered_diff, fi, hi, ai_log, submitted>>

\* Lines 246, 270, 299: the branch on the action.
CheckAction ==
    /\ pc = "check_action"
    /\ pc' = IF Supported(action) THEN "get_diff" ELSE "done"
    /\ UNCHANGED <<parseVars, commentVars, loopVars, replyVars, mainVars>>

\* get_diff (lines 41-56) and `if not diff: return` (lines 249-251): the
\* lookup raises, or the request answers with a status other than 200 (the
\* diff is ""), or with a diff text.
GetDiff ==
    /\ pc = "get_diff"
    /\ calls' = [calls EXCEPT !.diff = @ + 1]
    /\ \E outcome \in {"raise", "status", "text"} :
        \E text \in (IF outcome = "text" THEN DiffPool ELSE {<<>>}) :
            /\ diff_str' = text
            /\ raised' = IF outcome = "raise" THEN "GithubException" ELSE ""
            /\ pc' = IF outcome # "raise" /\ text # <<>> THEN "parse" ELSE "done"
    /\ UNCHANGED <<idle, parsed_diff, comments, response, ai_response,
                   action, exclude, filtered_diff, fi, hi, ai_log, submitted>>

\* parsed_diff = parse_diff(diff) (lines 253, 277)
Parse ==
    /\ pc = "parse"
    /\ parsed_diff' = parse_diff(diff_str)
    /\ pc' = "filter"
    /\ UNCHANGED <<diff_str, parser, commentVars, loopVars, replyVars, mainVars>>

\* Lines 255-262 (282-286), and the entry of analyze_code.
Filter ==
    /\ pc = "filter"
    /\ filtered_diff' = FilterDiff(parsed_diff, ExcludePatterns(exclude))
    /\ fi' = 1
    /\ hi' = 0
    /\ pc' = "analyze_file"
    /\ UNCHANGED <<parseVars, commentVars, loopVars, replyVars,
                   action, exclude, ai_log, calls, submitted>>

\* The outer loop of analyze_code reaches a file it skips (lines 66-68).
SkipFile ==
    /\ pc = "analyze_file"
    /\ fi <= Len(filtered_diff)
    /\ SkipsFile(filtered_diff[fi])
    /\ fi' = fi + 1
    /\ UNCHANGED <<pc, parseVars, commentVars, loopVars, replyVars,
                   action, exclude, filtered_diff, hi, ai_log, calls, submitted>>

\* The outer loop enters a file (lines 70-79).
EnterFile ==
    /\ pc = "analyze_file"
    /\ fi <= Len(filtered_diff)
    /\ ~SkipsFile(filtered_diff[fi])
    /\ hi' = 1
    /\ pc' = "analyze_hunk"
    /\ UNCHANGED <<parseVars, commentVars, loopVars, replyVars,
                   action, exclude, filtered_diff, fi, ai_log, calls, submitted>>

\* The inner loop is through with the file's hunks.
LeaveFile ==
    /\ pc = "analyze_hunk"
    /\ hi > Len(filtered_diff[fi].hunks)
    /\ fi' = fi + 1
    /\ hi' = 0
    /\ pc' = "analyze_file"
    /\ UNCHANGED <<parseVars, commentVars, loopVars, replyVars,
                   action, exclude, filtered_diff, ai_log, calls, submitted>>

\* A hunk without lines is skipped (lines 80-82).
SkipHunk ==
    /\ pc = "analyze_hunk"
    /\ hi <= Len(filtered_diff[fi].hunks)
    /\ filtered_diff[fi].hunks[hi].lines = <<>>
    /\ hi' = hi + 1
    /\ UNCHANGED <<pc, parseVars, commentVars, loopVars, replyVars,
                   action, exclude, filtered_diff, fi, ai_log, calls, submitted>>

\* Lines 84-94 and 138-143: the prompt of the hunk is sent and the backend
\* answers or raises.
SendPrompt ==
    /\ pc = "analyze_hunk"
    /\ hi <= Len(filtered_diff[fi].hunks)
    /\ filtered_diff[fi].hunks[hi].lines # <<>>
    /\ \E reply \in ReplyPool :
        /\ response' = reply
        /\ ai_log' = Append(ai_log, [path |-> filtered_diff[fi].path,
                                     file |-> filtered_diff[fi].at,
                                     hunk |-> filtered_diff[fi].hunks[hi].at,
                                     reply |-> reply,
                                     out |-> <<>>])
    /\ pc' = "ai_replied"
    /\ UNCHANGED <<parseVars, commentVars, loopVars, valid_reviews, ai_response,
                   action, exclude, filtered_diff, fi, hi, calls, submitted>>

\* Lines 144-169 and 97-101: the reply is validated and mapped to comments,
\* which are added to the run's comments; an exception that create_comment
\* lets through ends main at the handler of line 307.
HandleReply ==
    /\ pc = "ai_replied"
    /\ LET r == AnalyzeHunk(filtered_diff[fi].path, response) IN
        /\ ai_response' = get_ai_response(response)
        /\ raised' = r.exc
        /\ comments' = IF r.exc = "" THEN Extend(comments, r.comments) ELSE comments
        /\ ai_log' = [ai_log EXCEPT
                        ![Len(ai_log)].out = IF r.exc = "" THEN r.comments ELSE <<>>]
        /\ pc' = IF r.exc = "" THEN "analyze_hunk" ELSE "done"
        /\ hi' = IF r.exc = "" THEN hi + 1 ELSE hi
    /\ UNCHANGED <<parseVars, commentVars, idx, response, valid_reviews,
                   action, exclude, filtered_diff, fi, calls, submitted>>

\* return comments (line 103)
AnalyzeReturn ==
    /\ pc = "analyze_file"
    /\ fi > Len(filtered_diff)
    /\ pc' = "analyzed"
    /\ UNCHANGED <<parseVars, commentVars, loopVars, replyVars, mainVars>>

\* Lines 266-269 and 291-298, create_review_comment (lines 188-205): the
\* review is created, or create_review raises (caught at line 203), or the
\* lookup of lines 198-199 raises (caught at line 297 for "synchronize", at
\* line 307 for "opened").
SubmitReview ==
    /\ pc = "analyzed"
    /\ SubmitsReview(comments)
    /\ calls' = [calls EXCEPT !.review = @ + 1]
    /\ submitted' = comments
    /\ \E outcome \in {"created", "review_raises", "lookup_raises"} :
        raised' = IF outcome = "lookup_raises" /\ action = "opened"
                  THEN "GithubException" ELSE ""
    /\ pc' = "done"
    /\ UNCHANGED <<parseVars, commentVars, idx, comments, replyVars,
                   action, exclude, filtered_diff, fi, hi, ai_log>>

\* No comments: main returns without a review.
NoReview ==
    /\ pc = "analyzed"
    /\ ~SubmitsReview(comments)
    /\ pc' = "done"
    /\ UNCHANGED <<parseVars, commentVars, loopVars, replyVars, mainVars>>

Next ==
    \/ GetPrDetails \/ CheckAction \/ GetDiff \/ Parse \/ Filter
    \/ SkipFile \/ EnterFile \/ LeaveFile \/ SkipHunk \/ SendPrompt \/ HandleReply
    \/ AnalyzeReturn \/ SubmitReview \/ NoReview

Spec == Init /\ [][Next]_vars

\* ------------------------------------------------------- claims on main
\* The AI requests analyze_code issues for a list of files: one per hunk with
\* lines of each file it does not skip, file by file, hunk by hunk.
RECURSIVE Requests(_)
Requests(fd) ==
    IF fd = <<>> THEN <<>>
    ELSE LET file == Head(fd)
             hs == SelectSeq(file.hunks, LAMBDA h : h.lines # <<>>)
         IN  (IF SkipsFile(file) THEN <<>>
              ELSE [j \in 1..Len(hs) |-> <<file.at, hs[j].at>>])
             \o Requests(Tail(fd))

LogKeys(log) == [i \in 1..Len(log) |-> <<log[i].file, log[i].hunk>>]

RECURSIVE ConcatOuts(_)
ConcatOuts(log) == IF log = <<>> THEN <<>> ELSE Head(log).out \o ConcatOuts(Tail(log))

IsPrefix(a, b) == Len(a) <= Len(b) /\ a = SubSeq(b, 1, Len(a))

\* The path matches one of the patterns of INPUT_EXCLUDE.
Excluded(path) == MatchesAny(path, ExcludePatterns(exclude))

\* C3: in an opened or synchronize run, a parsed file whose path matches an
\* exclusion pattern is dropped by the filter: no AI request is issued for it
\* and no collected or submitted comment carries its path; the files that
\* match no pattern are kept, in order.
C3_ExcludedFilesNeverReviewed ==
    Supported(action) =>
        /\ pc \notin {"filter"} =>
            filtered_diff = SelectSeq(parsed_diff, LAMBDA f : ~Excluded(f.path))
        /\ \A i \in 1..Len(ai_log) :
            /\ ~Excluded(ai_log[i].path)
            /\ \A k \in 1..Len(parsed_diff) :
                parsed_diff[k].at = ai_log[i].file => ~Excluded(parsed_diff[k].path)
        /\ \A i \in 1..Len(comments) : ~Excluded(comments[i].path)
        /\ \A i \in 1..Len(submitted) : ~Excluded(submitted[i].path)

\* C3's case: a run that dropped a file with a hunk to review and submitted
\* comments on another file.
C3_Witness ==
    /\ pc = "done"
    /\ Supported(action)
    /\ submitted # <<>>
    /\ \E k \in 1..Len(parsed_diff) :
        /\ Excluded(parsed_diff[k].path)
        /\ parsed_diff[k].path # ""
        /\ \E j \in 1..Len(parsed_diff[k].hunks) : parsed_diff[k].hunks[j].lines # <<>>

\* C7: when the action is neither opened nor synchronize the run is a no-op:
\* no PR-metadata fetch, no diff fetch, no AI request and no review submission
\* is attempted, and the run ends without error.
C7_UnsupportedActionIsNoOp ==
    ~Supported(action) =>
        /\ calls = NoCalls
        /\ ai_log = <<>>
        /\ raised = ""
        /\ pc \in {"main", "done"}

\* The reply of a failed AI call: the backend raised, or the text is not valid
\* JSON, or it holds no `reviews` list.
FailedCall(reply) ==
    \/ reply.kind = "raise"
    \/ reply.kind = "text" /\ ~reply.json_ok
    \/ reply.kind = "text" /\ reply.json_ok /\ ~IsReviewsReply(reply)

\* C8: a hunk whose AI call failed contributes no comment, and a run in which
\* a call failed still sends every later hunk and file to the AI, in order,
\* collects their comments and submits the comments of the other hunks; it is
\* not aborted.
C8_FailedCallIsIsolated ==
    /\ \A i \in 1..Len(ai_log) : FailedCall(ai_log[i].reply) => ai_log[i].out = <<>>
    /\ IsPrefix(LogKeys(ai_log), Requests(filtered_diff))
    /\ (pc = "done" /\ \E i \in 1..Len(ai_log) : FailedCall(ai_log[i].reply)) =>
        /\ LogKeys(ai_log) = Requests(filtered_diff)
        /\ comments = ConcatOuts(ai_log)
        /\ submitted = comments
        /\ calls.review = 0 => raised = ""

\* The file section that the boundary at b opens deletes its file: its
\* new-file line is `+++ /dev/null`.
DeletesFile(L, b) ==
    \E p \in Section(L, b) : L[p] = "+++ /dev/null" /\ PreHunk(L, p)

\* C9: a file the diff deletes is parsed to a file with an empty or /dev/null
\* path, and analyze_code issues no AI request and produces no comment for it.
C9_DeletedFilesSkipped ==
    /\ \A k \in 1..Len(parsed_diff) :
        DeletesFile(diff_str, parsed_diff[k].at) =>
            parsed_diff[k].path \in {"", "/dev/null"}
    /\ \A i \in 1..Len(ai_log) : ~DeletesFile(diff_str, ai_log[i].file)

\* C10: a review is submitted at most once, only after every AI request has
\* returned and only with a non-empty comment list, which is the concatenation
\* of the hunks' comments in file order then hunk order; a run whose hunks
\* yield no comment (or whose diff is empty) is done without a submission.
C10_SingleSubmissionOfAllComments ==
    /\ calls.review <= 1
    /\ calls.review = 0 => submitted = <<>>
    /\ calls.review = 1 =>
        /\ pc = "done"
        /\ submitted # <<>>
        /\ LogKeys(ai_log) = Requests(filtered_diff)
        /\ submitted = ConcatOuts(ai_log)
    /\ (pc = "done" /\ ConcatOuts(ai_log) = <<>>) => calls.review = 0

\* C10's case: a finished run over two files and three hunks whose first and
\* last hunk produced comments, submitted in one review.
C10_Witness ==
    /\ pc = "done"
    /\ calls.review = 1
    /\ Len(ai_log) = 3
    /\ ai_log[1].out # <<>>
    /\ ai_log[3].out # <<>>
    /\ ai_log[1].path # ai_log[3].path
    /\ Len(submitted) > 1

\* C10's other case: a finished run whose hunks yielded no comment.
C10_WitnessNoComments ==
    /\ pc = "done"
    /\ raised = ""
    /\ Len(ai_log) = 3
    /\ ConcatOuts(ai_log) = <<>>
    /\ calls.review = 0

====
